---- MODULE Spec2Model ----
(***************************************************************************)
(* Classification-and-chunking engine of mr-bot: Config (config.py),       *)
(* FileFilter (file_filter.py), DiffProcessor (diff_processor.py) and the  *)
(* assembly loop of main (main.py).                                        *)
(*                                                                         *)
(* A Python str is modelled as a sequence of one-character strings, so     *)
(* that split, join, strip, count, startswith, endswith, `in`, lower and   *)
(* the regular expressions of Config are computed character by character.  *)
(* Reason, status and priority strings are only compared for equality and  *)
(* are kept as TLA+ strings.                                               *)
(***************************************************************************)
EXTENDS Integers, Sequences, FiniteSets, TLC

VARIABLES
    CHUNK_SIZE_LINES,   \* Config.CHUNK_SIZE_LINES, read from the environment at import
    CONTEXT_LINES,      \* Config.CONTEXT_LINES
    MAX_FILE_SIZE_KB,   \* Config.MAX_FILE_SIZE_KB
    file_changes,       \* mr_data.file_changes, the input of main
    skipped_files,      \* FileFilter.skipped_files, the exclusion log
    filtered_files,     \* the list the last filter_files call returned
    prev_filtered,      \* the list the call before it returned (<<>> when none)
    calls,              \* number of filter_files calls made on the FileFilter
    pc,                 \* position of main: "filter", "loop", "chunk", "done"
    file_idx,           \* 1-based position of main's loop over filtered_files
    all_chunks,         \* main's all_chunks
    chunk_count,        \* main's chunk_count
    lines,              \* _chunk_diff: lines
    current_pos,        \* _chunk_diff: current_pos
    chunk_num,          \* _chunk_diff: chunk_num
    chunks,             \* _chunk_diff: chunks
    ret_chunks,         \* the list the last process_file call returned
    ret_idx             \* position in filtered_files of the file it was called on (0: none)

vars == <<CHUNK_SIZE_LINES, CONTEXT_LINES, MAX_FILE_SIZE_KB, file_changes,
          skipped_files, filtered_files, prev_filtered, calls, pc, file_idx,
          all_chunks, chunk_count, lines, current_pos, chunk_num, chunks,
          ret_chunks, ret_idx>>

-----------------------------------------------------------------------------
(* Python str operations *)

NL == "\n"

Min(a, b) == IF a < b THEN a ELSE b

Max(a, b) == IF a > b THEN a ELSE b

\* s.count(c) for a one-character c
Count(s, c) == Cardinality({i \in 1..Len(s) : s[i] = c})

\* the pieces of a text from the pieces of its two halves: the last piece
\* of the left half is continued by the first piece of the right half
MergePieces(L, R) ==
    SubSeq(L, 1, Len(L) - 1) \o <<L[Len(L)] \o R[1]>> \o SubSeq(R, 2, Len(R))

\* s[lo..hi].split("\n"), by halves
RECURSIVE SplitRange(_, _, _)
SplitRange(s, lo, hi) ==
    IF lo > hi THEN << <<>> >>
    ELSE IF lo = hi THEN (IF s[lo] = NL THEN << <<>>, <<>> >> ELSE << <<s[lo]>> >>)
    ELSE MergePieces(SplitRange(s, lo, (lo + hi) \div 2),
                     SplitRange(s, (lo + hi) \div 2 + 1, hi))

\* Split as s.split() does on the empty text: no element at all
Split_NothingForEmpty(s) == IF s = <<>> THEN <<>> ELSE SplitRange(s, 1, Len(s))

\* s.split("\n"): always at least one element; "" gives [""]
Split(s) == SplitRange(s, 1, Len(s))

\* "\n".join(ls[lo..hi]), by halves
RECURSIVE JoinRange(_, _, _)
JoinRange(ls, lo, hi) ==
    IF lo > hi THEN <<>>
    ELSE IF lo = hi THEN ls[lo]
    ELSE JoinRange(ls, lo, (lo + hi) \div 2) \o <<NL>>
            \o JoinRange(ls, (lo + hi) \div 2 + 1, hi)

\* "\n".join(ls)
Join(ls) == JoinRange(ls, 1, Len(ls))

\* seq[a:b] of Python, a and b 0-based, negative indices counted from the end
PySlice(seq, a, b) ==
    LET n == Len(seq)
        lo == IF a < 0 THEN Max(a + n, 0) ELSE Min(a, n)
        hi == IF b < 0 THEN Max(b + n, 0) ELSE Min(b, n)
    IN  SubSeq(seq, lo + 1, hi)

\* the characters str.strip() removes
Whitespace == {" ", "\t", "\n", "\r", "\f"}

\* s.strip()
Strip(s) ==
    LET keep == {i \in 1..Len(s) : s[i] \notin Whitespace}
    IN  IF keep = {} THEN <<>>
        ELSE SubSeq(s, CHOOSE i \in keep : \A j \in keep : i <= j,
                       CHOOSE i \in keep : \A j \in keep : j <= i)

\* s.startswith(p)
StartsWith(s, p) == Len(s) >= Len(p) /\ SubSeq(s, 1, Len(p)) = p

\* s.endswith(p)
EndsWith(s, p) == Len(s) >= Len(p) /\ SubSeq(s, Len(s) - Len(p) + 1, Len(s)) = p

\* sub in s
Contains(s, sub) == \E i \in 1..(Len(s) - Len(sub) + 1) : SubSeq(s, i, i + Len(sub) - 1) = sub

UpperCase == <<"A","B","C","D","E","F","G","H","I","J","K","L","M",
               "N","O","P","Q","R","S","T","U","V","W","X","Y","Z">>

LowerCase == <<"a","b","c","d","e","f","g","h","i","j","k","l","m",
               "n","o","p","q","r","s","t","u","v","w","x","y","z">>

\* s.lower()
Lower(s) ==
    [i \in 1..Len(s) |->
        IF \E k \in 1..26 : UpperCase[k] = s[i]
        THEN LowerCase[CHOOSE k \in 1..26 : UpperCase[k] = s[i]]
        ELSE s[i]]

\* "U+00E9" stands for the one character e-acute, two bytes in UTF-8; every
\* other character of the model is ASCII, one byte
Utf8Width(c) == IF c = "U+00E9" THEN 2 ELSE 1

\* len(s.encode("utf-8"))
Utf8Len(s) == Len(s) + Cardinality({i \in 1..Len(s) : Utf8Width(s[i]) = 2})

\* "U+D800" stands for one lone surrogate, a character a str can hold (the
\* JSON text "\ud800" decodes to it) and UTF-8 cannot encode
SURROGATE == "U+D800"

\* s.encode("utf-8") returns; it raises UnicodeEncodeError otherwise
Encodable(s) == \A i \in 1..Len(s) : s[i] # SURROGATE

-----------------------------------------------------------------------------
(* config.py *)

\* pattern.match(p) for the three shapes of regular expression Config uses:
\*   "whole"   LIT$      LIT from position 0 up to the end
\*   "suffix"  .*LIT$    LIT at the end, after characters other than newline
\*   "infix"   .*LIT.*   LIT anywhere, after characters other than newline
\* `$` also matches just before a newline that ends the string, and `.`
\* matches no newline.
ReMatch(pat, p) ==
    \E a \in pat.alts :
        CASE pat.re = "whole" -> p = a \/ p = a \o <<NL>>
          [] pat.re = "suffix" ->
                \E n \in {Len(p), Len(p) - 1} :
                    /\ n >= Len(a)
                    /\ n = Len(p) \/ p[Len(p)] = NL
                    /\ SubSeq(p, n - Len(a) + 1, n) = a
                    /\ \A j \in 1..(n - Len(a)) : p[j] # NL
          [] pat.re = "infix" ->
                \E i \in 1..(Len(p) - Len(a) + 1) :
                    /\ SubSeq(p, i, i + Len(a) - 1) = a
                    /\ \A j \in 1..(i - 1) : p[j] # NL

SKIP_PATTERNS == <<
    \* .*\.lock$
    [re |-> "suffix", alts |-> {<<".","l","o","c","k">>}],
    \* package-lock\.json$
    [re |-> "whole", alts |-> {<<"p","a","c","k","a","g","e","-","l","o","c","k",".","j","s","o","n">>}],
    \* yarn\.lock$
    [re |-> "whole", alts |-> {<<"y","a","r","n",".","l","o","c","k">>}],
    \* poetry\.lock$
    [re |-> "whole", alts |-> {<<"p","o","e","t","r","y",".","l","o","c","k">>}],
    \* Pipfile\.lock$
    [re |-> "whole", alts |-> {<<"P","i","p","f","i","l","e",".","l","o","c","k">>}],
    \* composer\.lock$
    [re |-> "whole", alts |-> {<<"c","o","m","p","o","s","e","r",".","l","o","c","k">>}],
    \* Gemfile\.lock$
    [re |-> "whole", alts |-> {<<"G","e","m","f","i","l","e",".","l","o","c","k">>}],
    \* Cargo\.lock$
    [re |-> "whole", alts |-> {<<"C","a","r","g","o",".","l","o","c","k">>}],
    \* .*\.min\.(js|css)$
    [re |-> "suffix", alts |-> {<<".","m","i","n",".","j","s">>, <<".","m","i","n",".","c","s","s">>}],
    \* .*dist/.*
    [re |-> "infix", alts |-> {<<"d","i","s","t","/">>}],
    \* .*build/.*
    [re |-> "infix", alts |-> {<<"b","u","i","l","d","/">>}],
    \* .*target/.*
    [re |-> "infix", alts |-> {<<"t","a","r","g","e","t","/">>}],
    \* .*\.egg-info/.*
    [re |-> "infix", alts |-> {<<".","e","g","g","-","i","n","f","o","/">>}],
    \* .*__pycache__/.*
    [re |-> "infix", alts |-> {<<"_","_","p","y","c","a","c","h","e","_","_","/">>}],
    \* .*\.pyc$
    [re |-> "suffix", alts |-> {<<".","p","y","c">>}],
    \* .*\.pyo$
    [re |-> "suffix", alts |-> {<<".","p","y","o">>}],
    \* .*_pb2\.py$
    [re |-> "suffix", alts |-> {<<"_","p","b","2",".","p","y">>}],
    \* .*\.generated\..*
    [re |-> "infix", alts |-> {<<".","g","e","n","e","r","a","t","e","d",".">>}],
    \* .*\.pb\.go$
    [re |-> "suffix", alts |-> {<<".","p","b",".","g","o">>}],
    \* .*\.pb\.js$
    [re |-> "suffix", alts |-> {<<".","p","b",".","j","s">>}],
    \* .*\.(png|jpg|jpeg|gif|svg|ico|webp|bmp)$
    [re |-> "suffix", alts |-> {<<".","p","n","g">>, <<".","j","p","g">>, <<".","j","p","e","g">>, <<".","g","i","f">>, <<".","s","v","g">>, <<".","i","c","o">>, <<".","w","e","b","p">>, <<".","b","m","p">>}],
    \* .*\.(pdf|zip|tar|gz|bz2|xz)$
    [re |-> "suffix", alts |-> {<<".","p","d","f">>, <<".","z","i","p">>, <<".","t","a","r">>, <<".","g","z">>, <<".","b","z","2">>, <<".","x","z">>}],
    \* .*\.(mp3|mp4|avi|mov|wmv)$
    [re |-> "suffix", alts |-> {<<".","m","p","3">>, <<".","m","p","4">>, <<".","a","v","i">>, <<".","m","o","v">>, <<".","w","m","v">>}],
    \* .*\.(woff|woff2|ttf|eot|otf)$
    [re |-> "suffix", alts |-> {<<".","w","o","f","f">>, <<".","w","o","f","f","2">>, <<".","t","t","f">>, <<".","e","o","t">>, <<".","o","t","f">>}]
  >>

NOTE_ONLY_PATTERNS == <<
    \* .*\.csv$
    [re |-> "suffix", alts |-> {<<".","c","s","v">>}],
    \* .*\.tsv$
    [re |-> "suffix", alts |-> {<<".","t","s","v">>}],
    \* .*\.json\.gz$
    [re |-> "suffix", alts |-> {<<".","j","s","o","n",".","g","z">>}],
    \* .*\.parquet$
    [re |-> "suffix", alts |-> {<<".","p","a","r","q","u","e","t">>}]
  >>

CRITICAL_PATTERNS == <<
    \* .*auth.* (IGNORECASE)
    [re |-> "infix", alts |-> {<<"a","u","t","h">>}],
    \* .*security.* (IGNORECASE)
    [re |-> "infix", alts |-> {<<"s","e","c","u","r","i","t","y">>}],
    \* .*api.* (IGNORECASE)
    [re |-> "infix", alts |-> {<<"a","p","i">>}],
    \* .*middleware.* (IGNORECASE)
    [re |-> "infix", alts |-> {<<"m","i","d","d","l","e","w","a","r","e">>}],
    \* .*config.* (IGNORECASE)
    [re |-> "infix", alts |-> {<<"c","o","n","f","i","g">>}],
    \* .*settings.* (IGNORECASE)
    [re |-> "infix", alts |-> {<<"s","e","t","t","i","n","g","s">>}],
    \* .*database.* (IGNORECASE)
    [re |-> "infix", alts |-> {<<"d","a","t","a","b","a","s","e">>}],
    \* .*db.* (IGNORECASE)
    [re |-> "infix", alts |-> {<<"d","b">>}]
  >>

\* Config.should_skip_file
should_skip_file(filepath) ==
    \E k \in 1..Len(SKIP_PATTERNS) : ReMatch(SKIP_PATTERNS[k], filepath)

\* Config.should_note_only
should_note_only(filepath) ==
    \E k \in 1..Len(NOTE_ONLY_PATTERNS) : ReMatch(NOTE_ONLY_PATTERNS[k], filepath)

\* Config.is_critical_path; the patterns are compiled with re.IGNORECASE and
\* are written in lower case
is_critical_path(filepath) ==
    \E k \in 1..Len(CRITICAL_PATTERNS) : ReMatch(CRITICAL_PATTERNS[k], Lower(filepath))

\* get_file_priority with the test/spec check made before the critical check
get_file_priority_TestFirst(filepath) ==
    IF \/ Contains(Lower(filepath), <<"t","e","s","t">>)
       \/ Contains(Lower(filepath), <<"s","p","e","c">>)
    THEN "low"
    ELSE IF is_critical_path(filepath) THEN "critical" ELSE "normal"

\* Config.get_file_priority
get_file_priority(filepath) ==
    IF is_critical_path(filepath) THEN "critical"
    ELSE IF \/ Contains(Lower(filepath), <<"t","e","s","t">>)
            \/ Contains(Lower(filepath), <<"s","p","e","c">>)
         THEN "low"
         ELSE "normal"

-----------------------------------------------------------------------------
(* file_filter.py *)

NOTE_ONLY_REASON == "large data file (noted but not reviewed)"

\* any(filepath.endswith(x) for x in xs)
EndsWithAny(filepath, xs) == \E x \in xs : EndsWith(filepath, x)

\* FileFilter._get_skip_reason
_get_skip_reason(filepath) ==
    IF \/ EndsWith(filepath, <<".","l","o","c","k">>)
       \/ Contains(Lower(filepath), <<"l","o","c","k">>)
    THEN "lock file"
    ELSE IF Contains(Lower(filepath), <<".","m","i","n",".">>)
    THEN "minified file"
    ELSE IF \E x \in {<<"d","i","s","t","/">>, <<"b","u","i","l","d","/">>,
                      <<"t","a","r","g","e","t","/">>} : Contains(Lower(filepath), x)
    THEN "build artifact"
    ELSE IF \/ Contains(filepath, <<"_","_","p","y","c","a","c","h","e","_","_">>)
            \/ EndsWithAny(filepath, {<<".","p","y","c">>, <<".","p","y","o">>})
    THEN "Python cache file"
    ELSE IF \/ Contains(filepath, <<"_","p","b","2",".","p","y">>)
            \/ Contains(filepath, <<".","g","e","n","e","r","a","t","e","d",".">>)
    THEN "generated code"
    ELSE IF EndsWithAny(filepath, {<<".","p","n","g">>, <<".","j","p","g">>,
                                   <<".","j","p","e","g">>, <<".","g","i","f">>,
                                   <<".","s","v","g">>, <<".","i","c","o">>})
    THEN "image file"
    ELSE IF EndsWithAny(filepath, {<<".","p","d","f">>, <<".","z","i","p">>,
                                   <<".","t","a","r">>, <<".","g","z">>})
    THEN "binary/archive file"
    ELSE "matches skip pattern"

\* filepath = file_change.new_path or file_change.old_path
FilePath(file_change) ==
    IF file_change.new_path # <<>> THEN file_change.new_path ELSE file_change.old_path

\* size_kb = len(diff.encode("utf-8")) / 1024.0, kept as the exact fraction
\* num/den (a division by a power of two is exact in floating point)
SizeKb(diff) == [num |-> Utf8Len(diff), den |-> 1024]

\* size_kb > Config.MAX_FILE_SIZE_KB
SizeExceeds(size_kb) == size_kb.num > MAX_FILE_SIZE_KB * size_kb.den

\* ShouldChunk with >= for > on the line count
ShouldChunk_AtThreshold(line_count, size_kb) ==
    line_count >= CHUNK_SIZE_LINES \/ SizeExceeds(size_kb)

\* line_count > Config.CHUNK_SIZE_LINES or size_kb > Config.MAX_FILE_SIZE_KB
ShouldChunk(line_count, size_kb) ==
    line_count > CHUNK_SIZE_LINES \/ SizeExceeds(size_kb)

\* ShouldReview without the test of note_only
ShouldReview_IgnoresNoteOnly(note_only, status) == status # "deleted"

\* ShouldReview without the test of the status
ShouldReview_IgnoresStatus(note_only, status) == ~note_only

\* not note_only and file_change.status != "deleted"
ShouldReview(note_only, status) == ~note_only /\ status # "deleted"

\* MakeFilteredFile with note_only dropped for a path the exclusion log
\* already holds
MakeFilteredFile_OnceNoted(file_change) ==
    LET filepath == FilePath(file_change)
        note_only == /\ should_note_only(filepath)
                     /\ \A j \in 1..Len(skipped_files) : skipped_files[j][1] # filepath
        size_kb == SizeKb(file_change.diff)
        line_count == Count(file_change.diff, NL)
    IN  [file_change   |-> file_change,
         should_review |-> ShouldReview(note_only, file_change.status),
         should_chunk  |-> ShouldChunk(line_count, size_kb),
         priority      |-> get_file_priority(filepath),
         skip_reason   |-> "None",
         note_only     |-> note_only,
         size_kb       |-> size_kb,
         line_count    |-> line_count]

\* the FilteredFile that the body of filter_files' loop builds for a file
\* that is not skipped
MakeFilteredFile(file_change) ==
    LET filepath == FilePath(file_change)
        note_only == should_note_only(filepath)
        size_kb == SizeKb(file_change.diff)
        line_count == Count(file_change.diff, NL)
    IN  [file_change   |-> file_change,
         should_review |-> ShouldReview(note_only, file_change.status),
         should_chunk  |-> ShouldChunk(line_count, size_kb),
         priority      |-> get_file_priority(filepath),
         skip_reason   |-> "None",
         note_only     |-> note_only,
         size_kb       |-> size_kb,
         line_count    |-> line_count]

\* SkippedEntries with the note-only test made before the skip test
SkippedEntries_NoteOnlyFirst(file_change) ==
    LET filepath == FilePath(file_change)
    IN  IF should_note_only(filepath)
        THEN << <<filepath, NOTE_ONLY_REASON>> >>
        ELSE IF should_skip_file(filepath)
        THEN << <<filepath, _get_skip_reason(filepath)>> >>
        ELSE <<>>

\* SkippedEntries without the entry of a note-only file
SkippedEntries_NoteOnlyUnlogged(file_change) ==
    LET filepath == FilePath(file_change)
    IN  IF should_skip_file(filepath)
        THEN << <<filepath, _get_skip_reason(filepath)>> >>
        ELSE <<>>

\* what one iteration of filter_files' loop appends to self.skipped_files
SkippedEntries(file_change) ==
    LET filepath == FilePath(file_change)
    IN  IF should_skip_file(filepath)
        THEN << <<filepath, _get_skip_reason(filepath)>> >>
        ELSE IF should_note_only(filepath)
        THEN << <<filepath, NOTE_ONLY_REASON>> >>
        ELSE <<>>

\* FilteredEntries without the `continue` of a skipped file
FilteredEntries_NoContinue(file_change) == <<MakeFilteredFile(file_change)>>

\* what one iteration of filter_files' loop appends to filtered
FilteredEntries(file_change) ==
    IF should_skip_file(FilePath(file_change))
    THEN <<>>
    ELSE <<MakeFilteredFile(file_change)>>

\* FilterFrom with every new FilteredFile put at the head of the list
RECURSIVE FilterFrom_NewestFirst(_, _)
FilterFrom_NewestFirst(fcs, k) ==
    IF k > Len(fcs) THEN [filtered |-> <<>>, skipped |-> <<>>]
    ELSE LET rest == FilterFrom_NewestFirst(fcs, k + 1)
         IN  [filtered |-> rest.filtered \o FilteredEntries(fcs[k]),
              skipped  |-> SkippedEntries(fcs[k]) \o rest.skipped]

\* FileFilter.filter_files, the loop from file k on: the list returned and
\* the entries appended to self.skipped_files
RECURSIVE FilterFrom(_, _)
FilterFrom(fcs, k) ==
    IF k > Len(fcs) THEN [filtered |-> <<>>, skipped |-> <<>>]
    ELSE LET rest == FilterFrom(fcs, k + 1)
         IN  [filtered |-> FilteredEntries(fcs[k]) \o rest.filtered,
              skipped  |-> SkippedEntries(fcs[k]) \o rest.skipped]

\* the files on which the loop of filter_files raises: the path is not
\* skipped and diff.encode("utf-8") fails
RaisingFiles(fcs) ==
    {k \in 1..Len(fcs) : ~should_skip_file(FilePath(fcs[k])) /\ ~Encodable(fcs[k].diff)}

\* filter_files leaves through an exception
FilterRaises(fcs) == RaisingFiles(fcs) # {}

\* the file at which it does: the first of them
RaisedAt(fcs) == CHOOSE k \in RaisingFiles(fcs) : \A j \in RaisingFiles(fcs) : k <= j

-----------------------------------------------------------------------------
(* diff_processor.py *)

\* the look-back window of _chunk_diff
LOOKBACK == 50

\* the test of _find_breakpoint's loop body on one line
IsBreakLine(line) ==
    LET stripped == Strip(line)
    IN  \/ stripped = <<>>
        \/ \E p \in {<<"d","e","f"," ">>, <<"c","l","a","s","s"," ">>,
                     <<"f","u","n","c","t","i","o","n"," ">>, <<"@">>} :
               StartsWith(stripped, p)
        \/ stripped \in {<<"}">>, <<"]">>, <<")">>}

\* _find_breakpoint scanning one line further back, where there is one
_find_breakpoint_OneFurther(ls, start, end) ==
    LET hits == {i \in Max(start - 1, 0)..(end - 1) : IsBreakLine(ls[i + 1])}
    IN  IF hits = {} THEN end
        ELSE (CHOOSE i \in hits : \A j \in hits : j <= i) + 1

\* DiffProcessor._find_breakpoint: i runs over range(end - 1, start - 1, -1),
\* the first break line met gives i + 1, none gives end
_find_breakpoint(ls, start, end) ==
    LET hits == {i \in start..(end - 1) : IsBreakLine(ls[i + 1])}
    IN  IF hits = {} THEN end
        ELSE (CHOOSE i \in hits : \A j \in hits : j <= i) + 1

\* ChunkEnd with the break line search made for the last chunk as well
ChunkEnd_SearchesAtEnd(ls, pos) ==
    LET total_lines == Len(ls)
        chunk_end == Min(pos + CHUNK_SIZE_LINES, total_lines)
    IN  IF chunk_end <= total_lines
        THEN LET search_start == Max(chunk_end - LOOKBACK, pos)
                 breakpoint_pos == _find_breakpoint(ls, search_start, chunk_end)
             IN  IF breakpoint_pos > pos THEN breakpoint_pos ELSE chunk_end
        ELSE chunk_end

\* ChunkEnd with a look-back window one line longer
ChunkEnd_WiderWindow(ls, pos) ==
    LET total_lines == Len(ls)
        chunk_end == Min(pos + CHUNK_SIZE_LINES, total_lines)
    IN  IF chunk_end < total_lines
        THEN LET search_start == Max(chunk_end - LOOKBACK - 1, pos)
                 breakpoint_pos == _find_breakpoint(ls, search_start, chunk_end)
             IN  IF breakpoint_pos > pos THEN breakpoint_pos ELSE chunk_end
        ELSE chunk_end

\* the chunk end one iteration of _chunk_diff's loop settles on
ChunkEnd(ls, pos) ==
    LET total_lines == Len(ls)
        chunk_end == Min(pos + CHUNK_SIZE_LINES, total_lines)
    IN  IF chunk_end < total_lines
        THEN LET search_start == Max(chunk_end - LOOKBACK, pos)
                 breakpoint_pos == _find_breakpoint(ls, search_start, chunk_end)
             IN  IF breakpoint_pos > pos THEN breakpoint_pos ELSE chunk_end
        ELSE chunk_end

\* ChunkContent with a body that stops one line short of chunk_end
ChunkContent_BodyOneShort(ls, pos, chunk_end) ==
    LET total_lines == Len(ls)
        body == Join(PySlice(ls, pos, Max(chunk_end - 1, pos)))
        next_context == PySlice(ls, chunk_end, Min(chunk_end + CONTEXT_LINES, total_lines))
    IN  IF chunk_end < total_lines /\ CONTEXT_LINES > 0 /\ next_context # <<>>
        THEN body \o <<NL>> \o Join(next_context)
        ELSE body

\* ChunkContent with the context taken one line too far on
ChunkContent_ContextSkipsLine(ls, pos, chunk_end) ==
    LET total_lines == Len(ls)
        body == Join(PySlice(ls, pos, chunk_end))
        next_context == PySlice(ls, Min(chunk_end + 1, total_lines),
                                Min(chunk_end + 1 + CONTEXT_LINES, total_lines))
    IN  IF chunk_end < total_lines /\ CONTEXT_LINES > 0 /\ next_context # <<>>
        THEN body \o <<NL>> \o Join(next_context)
        ELSE body

\* the chunk_content one iteration builds: the body and, when the chunk is
\* not the last one and CONTEXT_LINES > 0, the lines that follow it
ChunkContent(ls, pos, chunk_end) ==
    LET total_lines == Len(ls)
        body == Join(PySlice(ls, pos, chunk_end))
        next_context == PySlice(ls, chunk_end, Min(chunk_end + CONTEXT_LINES, total_lines))
    IN  IF chunk_end < total_lines /\ CONTEXT_LINES > 0 /\ next_context # <<>>
        THEN body \o <<NL>> \o Join(next_context)
        ELSE body

\* DiffChunk(...)
DiffChunk(filepath, chunk_number, content, start_line, end_line, total_chunks) ==
    [filepath |-> filepath, chunk_number |-> chunk_number, content |-> content,
     start_line |-> start_line, end_line |-> end_line, total_chunks |-> total_chunks]

\* ChunkAt with start_line = current_pos
ChunkAt_StartAtCursor(filepath, num, ls, pos) ==
    LET chunk_end == ChunkEnd(ls, pos)
    IN  DiffChunk(filepath, num, ChunkContent(ls, pos, chunk_end), pos, chunk_end, 0)

\* the DiffChunk one iteration of _chunk_diff's loop appends, total_chunks
\* still 0
ChunkAt(filepath, num, ls, pos) ==
    LET chunk_end == ChunkEnd(ls, pos)
    IN  DiffChunk(filepath, num, ChunkContent(ls, pos, chunk_end), pos + 1, chunk_end, 0)

\* the single chunk process_file returns when should_chunk is false
SingleChunk(filtered_file) ==
    DiffChunk(FilePath(filtered_file.file_change), 1, filtered_file.file_change.diff,
              1, filtered_file.line_count, 1)

\* BackFill that stops one chunk short of the end
BackFill_ButLast(cs) ==
    [k \in 1..Len(cs) |-> IF k < Len(cs) THEN [cs[k] EXCEPT !.total_chunks = Len(cs)] ELSE cs[k]]

\* for chunk in chunks: chunk.total_chunks = len(chunks)
BackFill(cs) == [k \in 1..Len(cs) |-> [cs[k] EXCEPT !.total_chunks = Len(cs)]]

-----------------------------------------------------------------------------
(* Bounds of the model *)

\* longest enumerated diff text, in characters
MaxLen == 5

\* largest enumerated CHUNK_SIZE_LINES besides the default
MaxChunkSize == 3

\* largest enumerated CONTEXT_LINES besides the default
MaxContext == 2

\* longest enumerated list of file changes
MaxFiles == 2

\* filter_files calls made on one FileFilter
MaxFilterCalls == 2

\* iterations of _chunk_diff's loop followed for one file
MaxIter == 9

\* longest enumerated diff text under a chunk size of zero or less
MaxStuckLen == 3

-----------------------------------------------------------------------------
(* Inputs *)

\* the defaults of config.py
DEFAULT_MAX_FILE_SIZE_KB == 500

DEFAULT_CHUNK_SIZE_LINES == 300

DEFAULT_CONTEXT_LINES == 5

Config(chunk, context, size) == [chunk |-> chunk, context |-> context, size |-> size]

DefaultConfig == Config(DEFAULT_CHUNK_SIZE_LINES, DEFAULT_CONTEXT_LINES, DEFAULT_MAX_FILE_SIZE_KB)

\* int(os.getenv(...)) accepts every integer, zero and negatives included
StuckConfigs == {Config(c, 1, DEFAULT_MAX_FILE_SIZE_KB) : c \in {-1, 0}}

\* a negative size threshold: every file is chunked, the empty diff included
NegativeSizeConfig == Config(2, 1, -1)

SmallConfigs ==
    {Config(c, 1, DEFAULT_MAX_FILE_SIZE_KB) : c \in 1..MaxChunkSize}
    \cup {Config(2, x, DEFAULT_MAX_FILE_SIZE_KB) : x \in 0..MaxContext}
    \cup {Config(MaxChunkSize, 1, 0)}

FileChange(old_path, new_path, diff, status) ==
    [old_path |-> old_path, new_path |-> new_path, diff |-> diff, status |-> status]

P_main == <<"s","r","c","/","m","a","i","n",".","p","y">>  \* "src/main.py"

P_vendor_lock == <<"v","e","n","d","o","r","/","p","a","c","k","a","g","e","-","l","o","c","k",".","j","s","o","n">>  \* "vendor/package-lock.json"

P_root_lock == <<"p","a","c","k","a","g","e","-","l","o","c","k",".","j","s","o","n">>  \* "package-lock.json"

P_yarn == <<"w","e","b","/","y","a","r","n",".","l","o","c","k">>  \* "web/yarn.lock"

P_auth_test == <<"s","r","c","/","a","u","t","h","/","l","o","g","i","n","_","t","e","s","t",".","p","y">>  \* "src/auth/login_test.py"

P_test == <<"t","e","s","t","s","/","t","e","s","t","_","u","t","i","l",".","p","y">>  \* "tests/test_util.py"

P_spec_upper == <<"l","i","b","/","P","a","r","s","e","r","_","S","p","e","c",".","r","b">>  \* "lib/Parser_Spec.rb"

P_api_upper == <<"S","R","C","/","A","P","I","/","V","i","e","w","s",".","p","y">>  \* "SRC/API/Views.py"

P_parquet == <<"d","a","t","a","/","e","x","p","o","r","t",".","p","a","r","q","u","e","t">>  \* "data/export.parquet"

P_csv == <<"r","e","p","o","r","t",".","c","s","v">>  \* "report.csv"

P_json_gz == <<"d","u","m","p",".","j","s","o","n",".","g","z">>  \* "dump.json.gz"

P_min_js == <<"a","p","p",".","m","i","n",".","j","s">>  \* "app.min.js"

P_build == <<"b","u","i","l","d","/","o","u","t",".","o">>  \* "build/out.o"

P_pyc == <<"a",".","p","y","c">>  \* "a.pyc"

P_pb2 == <<"x","_","p","b","2",".","p","y">>  \* "x_pb2.py"

P_png == <<"i","m","g","/","l","o","g","o",".","p","n","g">>  \* "img/logo.png"

P_woff == <<"f","o","n","t",".","w","o","f","f">>  \* "font.woff"

P_blocklist_png == <<"d","o","c","s","/","b","l","o","c","k","l","i","s","t",".","p","n","g">>  \* "docs/blocklist.png"

P_webp == <<"p","i","c",".","w","e","b","p">>  \* "pic.webp"

Paths == {<<>>, P_main, P_vendor_lock, P_root_lock, P_yarn, P_auth_test, P_test, P_spec_upper, P_api_upper, P_parquet, P_csv, P_json_gz, P_min_js, P_build, P_pyc, P_pb2, P_png, P_woff, P_blocklist_png, P_webp}

\* every text of at most MaxLen characters over a line break, a blank and a letter
TextsOfLen(n) == [1..n -> {NL, " ", "x"}]

Texts == UNION {TextsOfLen(n) : n \in 0..MaxLen}

ShortTexts == UNION {TextsOfLen(n) : n \in 0..MaxStuckLen}

\* n lines "x", line `blank` (1-based) empty instead
LinesWithBlank(n, blank) == [i \in 1..n |-> IF i = blank THEN <<>> ELSE <<"x">>]

\* texts with the other kinds of break line, a two-byte character, and
\* texts around the default chunk size: 301 lines with line 250 or line 251
\* blank, with and without a final line break
SpecialTexts ==
    { Join(<< <<"x">>, <<"}">>, <<"x">>, <<"x">>, <<"x">> >>),
      Join(<< <<"@","p">>, <<"x">>, <<" ",")">>, <<"x">>, <<"x">>, <<"x">> >>),
      Join(<< <<"x">>, <<"d","e","f"," ","f">>, <<"x">>, <<"d","e","f">>, <<"x">>, <<>> >>),
      Join(<< <<"x">>, <<"x">>, <<"x">>, <<"x">>, <<"x">>, <<"x">>, <<"]","x">>, <<"x">> >>),
      <<"U+00E9", NL, "x", NL, NL, "x">> }

\* 301 lines "x", line `blank` empty instead, with or without a final line break
BigText(blank, final_newline) ==
    Join(LinesWithBlank(DEFAULT_CHUNK_SIZE_LINES + 1, blank))
        \o (IF final_newline THEN <<NL>> ELSE <<>>)

\* the blank line just before the look-back window of the first chunk, and
\* the first line inside it
BigTexts ==
    {BigText(b, n) : b \in {DEFAULT_CHUNK_SIZE_LINES - LOOKBACK,
                            DEFAULT_CHUNK_SIZE_LINES - LOOKBACK + 1},
                     n \in BOOLEAN}

SmallDiff == <<"x", NL, NL, "x", NL, "x">>

\* one file change per path, and some deleted, renamed and added ones
PathFiles ==
    {FileChange(p, p, SmallDiff, "modified") : p \in Paths}
    \cup {FileChange(p, <<>>, SmallDiff, "deleted") : p \in {P_main, P_auth_test, P_csv, P_png}}
    \cup {FileChange(P_main, p, <<"x">>, "renamed") : p \in {P_test, P_root_lock}}
    \cup {FileChange(<<>>, p, <<>>, "added") : p \in {P_main, P_parquet}}

\* the file changes that follow the first one in a longer list
MoreFiles ==
    { FileChange(P_main, P_main, SmallDiff, "modified"),
      FileChange(P_parquet, P_parquet, SmallDiff, "modified"),
      FileChange(P_yarn, P_yarn, SmallDiff, "modified"),
      FileChange(P_auth_test, <<>>, <<"x", NL>>, "deleted") }

\* a diff text with a lone surrogate in it
BadDiff == <<"x", NL, SURROGATE, NL>>

\* lists in which one file has that diff: a reviewable file before or after
\* a good one, behind a skipped and a note-only file, and a skipped file
BadDiffLists ==
    { << FileChange(P_main, P_main, BadDiff, "modified"),
         FileChange(P_test, P_test, SmallDiff, "modified") >>,
      << FileChange(P_test, P_test, SmallDiff, "modified"),
         FileChange(P_main, P_main, BadDiff, "modified") >>,
      << FileChange(P_yarn, P_yarn, SmallDiff, "modified"),
         FileChange(P_csv, P_csv, SmallDiff, "modified"),
         FileChange(P_main, P_main, BadDiff, "deleted") >>,
      << FileChange(P_yarn, P_yarn, BadDiff, "modified"),
         FileChange(P_main, P_main, SmallDiff, "modified") >> }

\* a list with every kind of file: reviewed, note-only, deleted, skipped,
\* and a second reviewed one
MixedList ==
    << FileChange(P_test, P_test, SmallDiff, "modified"),
       FileChange(P_csv, P_csv, SmallDiff, "modified"),
       FileChange(P_main, <<>>, SmallDiff, "deleted"),
       FileChange(P_yarn, P_yarn, SmallDiff, "modified"),
       FileChange(P_main, P_main, <<"x", NL, "x", NL, "x">>, "modified") >>

ListsOver(S, n) == UNION {[1..k -> S] : k \in 0..n}

PathLists == {<<f>> \o t : f \in PathFiles, t \in ListsOver(MoreFiles, MaxFiles - 1)}

\* the runs of the model: every small text under every small configuration,
\* the shortest ones under a chunk size of zero or less and under a
\* negative size threshold, the texts around
\* the default chunk size under the defaults, and the lists of paths under
\* the defaults and under a chunk size of one line, and the lists with a
\* diff that cannot be encoded
Runs ==
    {[config |-> c, files |-> <<FileChange(P_main, P_main, t, "modified")>>]
        : c \in SmallConfigs, t \in Texts \cup SpecialTexts}
    \cup {[config |-> c, files |-> <<FileChange(P_main, P_main, t, "modified")>>]
        : c \in StuckConfigs, t \in ShortTexts \cup SpecialTexts}
    \cup {[config |-> NegativeSizeConfig, files |-> <<FileChange(P_main, P_main, t, "modified")>>]
        : t \in ShortTexts}
    \cup {[config |-> DefaultConfig, files |-> <<FileChange(P_main, P_main, t, "modified")>>]
        : t \in BigTexts \cup SpecialTexts}
    \cup {[config |-> c, files |-> l]
        : c \in {DefaultConfig, Config(1, 1, DEFAULT_MAX_FILE_SIZE_KB)},
          l \in PathLists \cup {MixedList}}
    \cup {[config |-> DefaultConfig, files |-> l] : l \in BadDiffLists}
    \cup {[config |-> DefaultConfig, files |-> <<>>]}

-----------------------------------------------------------------------------
(* The state machine *)

Init ==
    /\ \E r \in Runs :
        /\ CHUNK_SIZE_LINES = r.config.chunk
        /\ CONTEXT_LINES = r.config.context
        /\ MAX_FILE_SIZE_KB = r.config.size
        /\ file_changes = r.files
    /\ skipped_files = <<>>
    /\ filtered_files = <<>>
    /\ prev_filtered = <<>>
    /\ calls = 0
    /\ pc = "filter"
    /\ file_idx = 0
    /\ all_chunks = <<>>
    /\ chunk_count = 0
    /\ lines = <<>>
    /\ current_pos = 0
    /\ chunk_num = 0
    /\ chunks = <<>>
    /\ ret_chunks = <<>>
    /\ ret_idx = 0

config_vars == <<CHUNK_SIZE_LINES, CONTEXT_LINES, MAX_FILE_SIZE_KB, file_changes>>

filter_vars == <<skipped_files, filtered_files, prev_filtered, calls>>

chunker_vars == <<lines, current_pos, chunk_num, chunks>>

\* FilterFiles with the exclusion log started afresh by every call
FilterFiles_ClearsLog ==
    /\ pc = "filter"
    /\ calls < MaxFilterCalls
    /\ ~FilterRaises(file_changes)
    /\ LET r == FilterFrom(file_changes, 1)
       IN  /\ filtered_files' = r.filtered
           /\ skipped_files' = r.skipped
    /\ prev_filtered' = filtered_files
    /\ calls' = calls + 1
    /\ UNCHANGED <<config_vars, pc, file_idx, all_chunks, chunk_count, chunker_vars,
                   ret_chunks, ret_idx>>

\* filter_obj.filter_files(mr_data.file_changes), the whole call: the one
\* main makes, and further ones made on the same FileFilter and the same input
FilterFiles ==
    /\ pc = "filter"
    /\ calls < MaxFilterCalls
    /\ ~FilterRaises(file_changes)
    /\ LET r == FilterFrom(file_changes, 1)
       IN  /\ filtered_files' = r.filtered
           /\ skipped_files' = skipped_files \o r.skipped
    /\ prev_filtered' = filtered_files
    /\ calls' = calls + 1
    /\ UNCHANGED <<config_vars, pc, file_idx, all_chunks, chunk_count, chunker_vars,
                   ret_chunks, ret_idx>>

\* filter_obj.filter_files(mr_data.file_changes) raising on a diff it cannot
\* encode: the entries of the files before that one are in the log, the
\* list is never returned, and main's handler of ValueError (UnicodeEncodeError
\* is one) logs the error and calls sys.exit(1)
FilterFilesRaises ==
    /\ pc = "filter"
    /\ calls < MaxFilterCalls
    /\ FilterRaises(file_changes)
    /\ skipped_files' = skipped_files
            \o FilterFrom(SubSeq(file_changes, 1, RaisedAt(file_changes) - 1), 1).skipped
    /\ calls' = calls + 1
    /\ pc' = "exit"
    /\ UNCHANGED <<config_vars, filtered_files, prev_filtered, file_idx, all_chunks,
                   chunk_count, chunker_vars, ret_chunks, ret_idx>>

\* main, right after its one filter_files call: all_chunks = [],
\* chunk_count = 0, and the loop over filtered_files begins
StartAssembly ==
    /\ pc = "filter"
    /\ calls = 1
    /\ pc' = "loop"
    /\ file_idx' = 1
    /\ all_chunks' = <<>>
    /\ chunk_count' = 0
    /\ UNCHANGED <<config_vars, filter_vars, chunker_vars, ret_chunks, ret_idx>>

\* SkipUnreviewed without main's test of should_review: the file is handed
\* to process_file like a small reviewed one
SkipUnreviewed_Processed ==
    /\ pc = "loop"
    /\ file_idx <= Len(filtered_files)
    /\ ~filtered_files[file_idx].should_review
    /\ ret_chunks' = <<SingleChunk(filtered_files[file_idx])>>
    /\ ret_idx' = file_idx
    /\ all_chunks' = all_chunks \o ret_chunks'
    /\ file_idx' = file_idx + 1
    /\ UNCHANGED <<config_vars, filter_vars, pc, chunk_count, chunker_vars>>

\* main's loop body on a file with should_review false: nothing is done
SkipUnreviewed ==
    /\ pc = "loop"
    /\ file_idx <= Len(filtered_files)
    /\ ~filtered_files[file_idx].should_review
    /\ file_idx' = file_idx + 1
    /\ UNCHANGED <<config_vars, filter_vars, pc, all_chunks, chunk_count, chunker_vars,
                   ret_chunks, ret_idx>>

\* main's loop body on a file process_file returns a single chunk for
ProcessSmallFile ==
    /\ pc = "loop"
    /\ file_idx <= Len(filtered_files)
    /\ filtered_files[file_idx].should_review
    /\ ~filtered_files[file_idx].should_chunk
    /\ ret_chunks' = <<SingleChunk(filtered_files[file_idx])>>
    /\ ret_idx' = file_idx
    /\ all_chunks' = all_chunks \o ret_chunks'
    /\ file_idx' = file_idx + 1
    /\ UNCHANGED <<config_vars, filter_vars, pc, chunk_count, chunker_vars>>

\* process_file enters _chunk_diff: the locals before the loop
EnterChunkDiff ==
    /\ pc = "loop"
    /\ file_idx <= Len(filtered_files)
    /\ filtered_files[file_idx].should_review
    /\ filtered_files[file_idx].should_chunk
    /\ lines' = Split(filtered_files[file_idx].file_change.diff)
    /\ chunks' = <<>>
    /\ current_pos' = 0
    /\ chunk_num' = 1
    /\ pc' = "chunk"
    /\ UNCHANGED <<config_vars, filter_vars, file_idx, all_chunks, chunk_count,
                   ret_chunks, ret_idx>>

\* one iteration of _chunk_diff's while loop
ChunkStep ==
    /\ pc = "chunk"
    /\ current_pos < Len(lines)
    /\ Len(chunks) < MaxIter
    /\ chunks' = Append(chunks, ChunkAt(FilePath(filtered_files[file_idx].file_change),
                                        chunk_num, lines, current_pos))
    /\ current_pos' = ChunkEnd(lines, current_pos)
    /\ chunk_num' = chunk_num + 1
    /\ UNCHANGED <<config_vars, filter_vars, pc, file_idx, all_chunks, chunk_count, lines,
                   ret_chunks, ret_idx>>

\* _chunk_diff leaves its loop, back-fills total_chunks and returns; main
\* extends all_chunks and counts the chunks of a file split in several
ChunkReturn ==
    /\ pc = "chunk"
    /\ ~(current_pos < Len(lines))
    /\ ret_chunks' = BackFill(chunks)
    /\ ret_idx' = file_idx
    /\ all_chunks' = all_chunks \o ret_chunks'
    /\ chunk_count' = IF Len(ret_chunks') > 1 THEN chunk_count + Len(ret_chunks') ELSE chunk_count
    /\ file_idx' = file_idx + 1
    /\ pc' = "loop"
    /\ UNCHANGED <<config_vars, filter_vars, chunker_vars>>

\* main's loop is over
Finish ==
    /\ pc = "loop"
    /\ file_idx > Len(filtered_files)
    /\ pc' = "done"
    /\ UNCHANGED <<config_vars, filter_vars, file_idx, all_chunks, chunk_count, chunker_vars,
                   ret_chunks, ret_idx>>

Next ==
    \/ FilterFiles
    \/ FilterFilesRaises
    \/ StartAssembly
    \/ SkipUnreviewed
    \/ ProcessSmallFile
    \/ EnterChunkDiff
    \/ ChunkStep
    \/ ChunkReturn
    \/ Finish

Spec == Init /\ [][Next]_vars

-----------------------------------------------------------------------------
(* Properties *)

\* the last process_file call went through _chunk_diff
ViaChunkDiff == ret_idx > 0 /\ filtered_files[ret_idx].should_chunk

\* the diff text the last process_file call was made on
RetDiff == filtered_files[ret_idx].file_change.diff

\* start_line, end_line and total_chunks of every chunk of a list
Ranges(cs) == [k \in 1..Len(cs) |-> <<cs[k].start_line, cs[k].end_line, cs[k].total_chunks>>]

\* a filter_files call has returned and main's loop has not begun
FilterReturned == pc = "filter" /\ calls >= 1

\* the positions of the input files with path p
InputsAt(p) == {k \in 1..Len(file_changes) : FilePath(file_changes[k]) = p}

\* the positions of the exclusion-log entries with path p
LoggedAt(p) == {j \in 1..Len(skipped_files) : skipped_files[j][1] = p}

\* the paths of the input
InputPaths == {FilePath(file_changes[k]) : k \in 1..Len(file_changes)}

\* C1: the chunks _chunk_diff returns for a diff of N newline-delimited
\* elements partition 1..N: the first starts at line 1, each later one starts
\* right after the one before it ends, the last ends at line N, and every
\* line of 1..N lies in exactly one chunk's range.
C1_ChunksPartitionLines ==
    ViaChunkDiff =>
        LET N == Len(Split(RetDiff))
            n == Len(ret_chunks)
        IN  /\ n >= 1
            /\ ret_chunks[1].start_line = 1
            /\ \A k \in 2..n : ret_chunks[k].start_line = ret_chunks[k - 1].end_line + 1
            /\ ret_chunks[n].end_line = N
            /\ \A l \in 1..N :
                 Cardinality({k \in 1..n : ret_chunks[k].start_line <= l
                                           /\ l <= ret_chunks[k].end_line}) = 1

\* C1 witness: _chunk_diff returned several chunks, one of them cut short at
\* a break line
C1_Witness ==
    /\ ViaChunkDiff
    /\ Len(ret_chunks) >= 3
    /\ \E k \in 1..(Len(ret_chunks) - 1) :
         ret_chunks[k].end_line - ret_chunks[k].start_line + 1 < CHUNK_SIZE_LINES

\* C2: on every iteration of _chunk_diff's loop the chunk end chosen is
\* strictly greater than the cursor, whatever integer CHUNK_SIZE_LINES holds.
C2_EveryIterationAdvances ==
    (pc = "chunk" /\ current_pos < Len(lines)) => ChunkEnd(lines, current_pos) > current_pos

\* the input is one file with the given diff text, under the defaults
DefaultRunOn(text) ==
    /\ CHUNK_SIZE_LINES = DEFAULT_CHUNK_SIZE_LINES
    /\ CONTEXT_LINES = DEFAULT_CONTEXT_LINES
    /\ MAX_FILE_SIZE_KB = DEFAULT_MAX_FILE_SIZE_KB
    /\ Len(file_changes) = 1
    /\ file_changes[1].diff = text

SizeBytes(f) == f.size_kb.num

\* C4: under the default thresholds a classified file with line_count <= 300
\* and at most 500*1024 bytes has should_chunk false, and process_file
\* returns one chunk for it: chunk 1 of 1, lines 1..line_count, the whole
\* diff text as content.
C4_SmallFileSingleChunk ==
    (CHUNK_SIZE_LINES = DEFAULT_CHUNK_SIZE_LINES /\ MAX_FILE_SIZE_KB = DEFAULT_MAX_FILE_SIZE_KB) =>
        /\ \A k \in 1..Len(filtered_files) :
             (filtered_files[k].line_count <= 300 /\ SizeBytes(filtered_files[k]) <= 500 * 1024)
                => ~filtered_files[k].should_chunk
        /\ (/\ ret_idx > 0
            /\ filtered_files[ret_idx].line_count <= 300
            /\ SizeBytes(filtered_files[ret_idx]) <= 500 * 1024)
           => /\ Len(ret_chunks) = 1
              /\ ret_chunks[1].chunk_number = 1
              /\ ret_chunks[1].total_chunks = 1
              /\ ret_chunks[1].start_line = 1
              /\ ret_chunks[1].end_line = filtered_files[ret_idx].line_count
              /\ ret_chunks[1].content = RetDiff

\* C4 witness: under the defaults process_file returned for a file of
\* exactly 300 line breaks
C4_Witness ==
    /\ CHUNK_SIZE_LINES = DEFAULT_CHUNK_SIZE_LINES
    /\ MAX_FILE_SIZE_KB = DEFAULT_MAX_FILE_SIZE_KB
    /\ ret_idx > 0
    /\ filtered_files[ret_idx].line_count = 300
    /\ Len(ret_chunks) = 1

\* the reasons of a skipped file
SkipReasons ==
    {"lock file", "minified file", "build artifact", "Python cache file",
     "generated code", "image file", "binary/archive file", "matches skip pattern"}

\* C5: an input file whose path matches a skip pattern gets no FilteredFile,
\* and every filter_files call appends exactly one entry for it to the
\* exclusion log, with one of the fixed reasons.
C5_SkippedFileLoggedOnce ==
    FilterReturned =>
        /\ \A k \in 1..Len(filtered_files) :
             ~should_skip_file(FilePath(filtered_files[k].file_change))
        /\ \A p \in InputPaths :
             should_skip_file(p) =>
                /\ Cardinality(LoggedAt(p)) = calls * Cardinality(InputsAt(p))
                /\ \A j \in LoggedAt(p) : skipped_files[j][2] \in SkipReasons

\* C5 witness: filter_files ran on an input with a file matching a skip pattern
C5_Witness ==
    /\ FilterReturned
    /\ \E p \in InputPaths : should_skip_file(p) /\ LoggedAt(p) # {}

\* C6: vendor/package-lock.json is excluded: it gets no FilteredFile and the
\* exclusion log holds (vendor/package-lock.json, "lock file").
C6_VendorLockFileSkipped ==
    (FilterReturned /\ P_vendor_lock \in InputPaths) =>
        /\ \A k \in 1..Len(filtered_files) :
             FilePath(filtered_files[k].file_change) # P_vendor_lock
        /\ \E j \in 1..Len(skipped_files) : skipped_files[j] = <<P_vendor_lock, "lock file">>

\* the critical keywords
CriticalKeywords ==
    { <<"a","u","t","h">>, <<"s","e","c","u","r","i","t","y">>, <<"a","p","i">>,
      <<"m","i","d","d","l","e","w","a","r","e">>, <<"c","o","n","f","i","g">>,
      <<"s","e","t","t","i","n","g","s">>, <<"d","a","t","a","b","a","s","e">>,
      <<"d","b">> }

\* a path holds a critical keyword, in any case
HasCriticalKeyword(p) == \E w \in CriticalKeywords : Contains(Lower(p), w)

\* a path holds "test" or "spec", in any case
HasTestMarker(p) ==
    Contains(Lower(p), <<"t","e","s","t">>) \/ Contains(Lower(p), <<"s","p","e","c">>)

\* C7: the priority of every classified file is critical when its path holds
\* a critical keyword in any case, else low when it holds test or spec,
\* else normal; src/auth/login_test.py is critical and, when not deleted,
\* is to be reviewed.
C7_CriticalBeforeTest ==
    FilterReturned => \A k \in 1..Len(filtered_files) :
        LET f == filtered_files[k]
            p == FilePath(f.file_change)
        IN  /\ f.priority = (IF HasCriticalKeyword(p) THEN "critical"
                             ELSE IF HasTestMarker(p) THEN "low" ELSE "normal")
            /\ (p = P_auth_test /\ f.file_change.status # "deleted")
                 => (f.priority = "critical" /\ f.should_review)

\* C7 witness: src/auth/login_test.py, not deleted, was classified as
\* critical and to be reviewed
C7_Witness ==
    \E k \in 1..Len(filtered_files) :
        /\ FilePath(filtered_files[k].file_change) = P_auth_test
        /\ HasTestMarker(P_auth_test)
        /\ filtered_files[k].file_change.status # "deleted"
        /\ filtered_files[k].priority = "critical"
        /\ filtered_files[k].should_review

\* C8: a classified file is to be reviewed exactly when it is not note-only
\* and its status is not deleted; a deleted file never is.
C8_ReviewIffNotNoteOnlyNotDeleted ==
    FilterReturned => \A k \in 1..Len(filtered_files) :
        LET f == filtered_files[k]
        IN  /\ f.should_review <=> (~f.note_only /\ f.file_change.status # "deleted")
            /\ f.file_change.status = "deleted" => ~f.should_review

\* C8 witness: a deleted file of critical priority, large enough to be
\* chunked, was classified, and so was a file to be reviewed
C8_Witness ==
    /\ \E k \in 1..Len(filtered_files) :
         /\ filtered_files[k].file_change.status = "deleted"
         /\ filtered_files[k].priority = "critical"
         /\ filtered_files[k].should_chunk
         /\ ~filtered_files[k].note_only
    /\ \E k \in 1..Len(filtered_files) : filtered_files[k].should_review

\* C9: an input file whose path matches a note-only pattern and no skip
\* pattern gets a FilteredFile with note_only true and should_review false,
\* and every filter_files call appends exactly one entry for it to the
\* exclusion log, with the note-only reason.
C9_NoteOnlyLoggedOnce ==
    FilterReturned =>
        \A p \in InputPaths :
            (should_note_only(p) /\ ~should_skip_file(p)) =>
                /\ Cardinality({k \in 1..Len(filtered_files) :
                                  FilePath(filtered_files[k].file_change) = p})
                     = Cardinality(InputsAt(p))
                /\ \A k \in 1..Len(filtered_files) :
                     FilePath(filtered_files[k].file_change) = p
                        => (filtered_files[k].note_only /\ ~filtered_files[k].should_review)
                /\ Cardinality(LoggedAt(p)) = calls * Cardinality(InputsAt(p))
                /\ \A j \in LoggedAt(p) : skipped_files[j][2] = NOTE_ONLY_REASON

\* C9 witness: data/export.parquet was classified and logged
C9_Witness ==
    /\ calls = 1
    /\ P_parquet \in InputPaths
    /\ \E j \in 1..Len(skipped_files) : skipped_files[j] = <<P_parquet, NOTE_ONLY_REASON>>

HardExcluded(k) ==
    /\ should_skip_file(FilePath(file_changes[k]))
    /\ \E j \in LoggedAt(FilePath(file_changes[k])) : skipped_files[j][2] \in SkipReasons
    /\ ~\E i \in 1..Len(filtered_files) : filtered_files[i].file_change = file_changes[k]

\* input file k has a FilteredFile with note_only true
ClassifiedNoteOnly(k) ==
    \E i \in 1..Len(filtered_files) :
        filtered_files[i].file_change = file_changes[k] /\ filtered_files[i].note_only

\* input file k has a FilteredFile with should_review true
ClassifiedReviewable(k) ==
    \E i \in 1..Len(filtered_files) :
        filtered_files[i].file_change = file_changes[k] /\ filtered_files[i].should_review

\* how many of excluded / noteOnly / reviewable hold for input file k
ClassesOf(k) ==
    Cardinality({c \in {"excluded", "noteOnly", "reviewable"} :
                    \/ c = "excluded" /\ HardExcluded(k)
                    \/ c = "noteOnly" /\ ClassifiedNoteOnly(k)
                    \/ c = "reviewable" /\ ClassifiedReviewable(k)})

\* input file k is deleted and its path matches neither a skip pattern nor a
\* note-only pattern
DeletedPlain(k) ==
    /\ file_changes[k].status = "deleted"
    /\ ~should_skip_file(FilePath(file_changes[k]))
    /\ ~should_note_only(FilePath(file_changes[k]))

\* C11 as stated: after classification every input file is in exactly one of
\* hard-excluded, noteOnly and reviewable.
C11_ExactlyOneClass ==
    FilterReturned => \A k \in 1..Len(file_changes) : ClassesOf(k) = 1

\* C11 as the code has it: after classification no input file is in two of
\* hard-excluded, noteOnly and reviewable, and a file is in none of them
\* exactly when it is deleted and its path matches neither a skip pattern
\* nor a note-only pattern; such a file has a FilteredFile with note_only
\* and should_review both false.
C11_OneClassUnlessDeleted ==
    FilterReturned =>
        \A k \in 1..Len(file_changes) :
            /\ ClassesOf(k) <= 1
            /\ ClassesOf(k) = 0 <=> DeletedPlain(k)
            /\ DeletedPlain(k) =>
                 \E i \in 1..Len(filtered_files) :
                    /\ filtered_files[i].file_change = file_changes[k]
                    /\ ~filtered_files[i].note_only
                    /\ ~filtered_files[i].should_review

\* C11 witness: one classification holds a deleted file in none of the three
\* classes next to a file in exactly one
C11_Witness ==
    /\ FilterReturned
    /\ \E k \in 1..Len(file_changes) : DeletedPlain(k) /\ ClassesOf(k) = 0
    /\ \E k \in 1..Len(file_changes) : ClassesOf(k) = 1

\* C12: when one file's diff text cannot be decoded or encoded, the run is
\* not aborted: after classification that file is in the exclusion log with
\* the generic reason and has no FilteredFile, and every other file that is
\* not skipped has its FilteredFile.
C12_BadDiffRecoveredLocally ==
    LET bad == RaisingFiles(file_changes)
    IN  (calls >= 1 /\ bad # {}) =>
            /\ pc # "exit"
            /\ \A k \in bad :
                 /\ \E j \in LoggedAt(FilePath(file_changes[k])) :
                        skipped_files[j][2] = "matches skip pattern"
                 /\ ~\E i \in 1..Len(filtered_files) :
                        filtered_files[i].file_change = file_changes[k]
            /\ \A k \in (1..Len(file_changes)) \ bad :
                 ~should_skip_file(FilePath(file_changes[k])) =>
                    \E i \in 1..Len(filtered_files) :
                        filtered_files[i].file_change = file_changes[k]

\* C13: the chunks process_file returns for a file carry chunk_number 1, 2,
\* ..., k in list order and total_chunks = k, k being the number of chunks
\* returned; none still carries total_chunks = 0.
C13_ChunkNumbersAndTotals ==
    ret_idx > 0 =>
        /\ Len(ret_chunks) >= 1
        /\ \A k \in 1..Len(ret_chunks) :
             /\ ret_chunks[k].chunk_number = k
             /\ ret_chunks[k].total_chunks = Len(ret_chunks)
             /\ ret_chunks[k].total_chunks # 0

\* C13 witness: _chunk_diff returned three chunks or more, numbered and
\* back-filled
C13_Witness ==
    /\ ViaChunkDiff
    /\ Len(ret_chunks) >= 3
    /\ ret_chunks[Len(ret_chunks)].chunk_number = Len(ret_chunks)
    /\ ret_chunks[1].total_chunks = Len(ret_chunks)

\* the FilteredFiles main hands to process_file, in the order of the list
ReviewedFiles == SelectSeq(filtered_files, LAMBDA f : f.should_review)

\* the positions of all_chunks at which a file's chunks begin
ChunkStarts == {i \in 1..Len(all_chunks) : all_chunks[i].chunk_number = 1}

\* the j-th of them
NthStart(j) == CHOOSE s \in ChunkStarts : Cardinality({t \in ChunkStarts : t < s}) = j - 1

\* C14: when main's loop is over, all_chunks is made of one run of chunks per
\* FilteredFile with should_review true and of nothing else: as many runs as
\* reviewed files, the j-th run carrying the path of the j-th reviewed file
\* in the order of the input, each run adjacent to the next, and inside a
\* run chunk_number 1, 2, ... up to total_chunks.
C14_ChunkListFollowsReviewedFiles ==
    pc = "done" =>
        /\ Cardinality(ChunkStarts) = Len(ReviewedFiles)
        /\ all_chunks # <<>> => 1 \in ChunkStarts
        /\ \A j \in 1..Len(ReviewedFiles) :
             j <= Cardinality(ChunkStarts) =>
                LET s == NthStart(j)
                    n == all_chunks[s].total_chunks
                IN  /\ n >= 1
                    /\ s + n - 1 <= Len(all_chunks)
                    /\ \A i \in 0..(n - 1) :
                         s + i <= Len(all_chunks) =>
                            /\ all_chunks[s + i].filepath = FilePath(ReviewedFiles[j].file_change)
                            /\ all_chunks[s + i].chunk_number = i + 1
                            /\ all_chunks[s + i].total_chunks = n
                    /\ IF j < Cardinality(ChunkStarts)
                       THEN NthStart(j + 1) = s + n
                       ELSE s + n - 1 = Len(all_chunks)

\* C14 witness: the loop is over on a list with two reviewed files of
\* different paths, each split in several chunks, and a file that is not
\* reviewed between them
C14_Witness ==
    /\ pc = "done"
    /\ Len(ReviewedFiles) = 2
    /\ FilePath(ReviewedFiles[1].file_change) # FilePath(ReviewedFiles[2].file_change)
    /\ \E i \in 2..(Len(filtered_files) - 1) : ~filtered_files[i].should_review
    /\ filtered_files[1].should_review
    /\ filtered_files[Len(filtered_files)].should_review
    /\ Cardinality(ChunkStarts) = 2
    /\ NthStart(2) > 2
    /\ Len(all_chunks) > NthStart(2)

\* C15: process_file never returns an empty list, and for the empty diff it
\* returns exactly one chunk, of empty content, whether should_chunk is
\* false or _chunk_diff ran.
C15_NeverEmptyList ==
    ret_idx > 0 =>
        /\ Len(ret_chunks) >= 1
        /\ RetDiff = <<>> =>
             /\ Len(ret_chunks) = 1
             /\ ret_chunks[1].content = <<>>

\* C15 witness: _chunk_diff ran on the empty diff and returned one empty chunk
C15_Witness ==
    /\ ViaChunkDiff
    /\ RetDiff = <<>>
    /\ Len(ret_chunks) = 1
    /\ ret_chunks[1].content = <<>>

\* the paths of the input that match a skip pattern and a note-only pattern
SkipAndNoteOnlyPaths == {p \in InputPaths : should_skip_file(p) /\ should_note_only(p)}

\* C16: a path that matches both a skip pattern and a note-only pattern is
\* treated as skipped: no FilteredFile is made for it, so nothing marks it
\* note_only, and per input file and call the exclusion log holds it once,
\* with a skip reason and not with the note-only reason.
C16_SkipWinsOverNoteOnly ==
    FilterReturned =>
        \A p \in SkipAndNoteOnlyPaths :
            /\ ~\E i \in 1..Len(filtered_files) : FilePath(filtered_files[i].file_change) = p
            /\ Cardinality(LoggedAt(p)) = calls * Cardinality(InputsAt(p))
            /\ \A j \in LoggedAt(p) :
                 /\ skipped_files[j][2] \in SkipReasons
                 /\ skipped_files[j][2] # NOTE_ONLY_REASON

\* C16 witness: dump.json.gz went through one filter_files call and is in
\* the log once, as a binary/archive file
C16_Witness ==
    /\ FilterReturned
    /\ calls = 1
    /\ P_json_gz \in SkipAndNoteOnlyPaths
    /\ Cardinality(LoggedAt(P_json_gz)) = 1
    /\ \E j \in LoggedAt(P_json_gz) : skipped_files[j][2] = "binary/archive file"

\* C17: the number of elements _chunk_diff splits a diff text into, which is
\* the end_line of the last chunk it returns, equals the line_count
\* filter_files computed for the same text.
C17_SplitLengthIsLineCount ==
    ViaChunkDiff =>
        /\ Len(Split(RetDiff)) = filtered_files[ret_idx].line_count
        /\ ret_chunks[Len(ret_chunks)].end_line = filtered_files[ret_idx].line_count

\* the body of chunk k of the last list returned: lines start_line..end_line
BodyOf(k) == Join(SubSeq(Split(RetDiff), ret_chunks[k].start_line, ret_chunks[k].end_line))

\* the lines of context the claim gives chunk k: min(c, N - end_line)
ContextCount(k) == Min(CONTEXT_LINES, Len(Split(RetDiff)) - ret_chunks[k].end_line)

\* C18: in the list _chunk_diff returns, with CONTEXT_LINES = c > 0 the
\* content of every chunk but the last is its body, a line break, and exactly
\* min(c, N - end_line) lines, the lines end_line + 1 and on of the diff; the
\* content of the last chunk is its body; the next chunk still starts at
\* end_line + 1; and with c = 0 every content is the body.
C18_ContextAfterBody ==
    (ViaChunkDiff /\ CONTEXT_LINES >= 0) =>
        LET ls == Split(RetDiff)
            n == Len(ret_chunks)
        IN  \A k \in 1..n :
                /\ (k < n /\ CONTEXT_LINES > 0) =>
                     /\ ContextCount(k) >= 1
                     /\ ret_chunks[k].content =
                            BodyOf(k) \o <<NL>>
                            \o Join(SubSeq(ls, ret_chunks[k].end_line + 1,
                                           ret_chunks[k].end_line + ContextCount(k)))
                /\ (k = n \/ CONTEXT_LINES = 0) => ret_chunks[k].content = BodyOf(k)
                /\ k < n => ret_chunks[k + 1].start_line = ret_chunks[k].end_line + 1

\* C18 witness: a list of three chunks or more in which one chunk has its
\* full context of two lines or more and a later one, not the last, has a
\* context cut short by the end of the diff
C18_Witness ==
    /\ ViaChunkDiff
    /\ CONTEXT_LINES >= 2
    /\ Len(ret_chunks) >= 3
    /\ \E k \in 1..(Len(ret_chunks) - 1) : ContextCount(k) = CONTEXT_LINES
    /\ \E k \in 1..(Len(ret_chunks) - 1) :
         /\ ContextCount(k) < CONTEXT_LINES
         /\ ret_chunks[k].content # BodyOf(k)

\* the reason categories in their order of priority, each with the entries
\* of SKIP_PATTERNS that make its group
SkipGroups ==
    << [reason |-> "lock file",           patterns |-> 1..8],
       [reason |-> "minified file",       patterns |-> {9}],
       [reason |-> "build artifact",      patterns |-> 10..13],
       [reason |-> "Python cache file",   patterns |-> 14..16],
       [reason |-> "generated code",      patterns |-> 17..20],
       [reason |-> "image file",          patterns |-> {21}],
       [reason |-> "binary/archive file", patterns |-> {22}] >>

\* the groups path p matches a pattern of
GroupsMatched(p) ==
    {g \in 1..Len(SkipGroups) : \E i \in SkipGroups[g].patterns : ReMatch(SKIP_PATTERNS[i], p)}

\* the reason of the first of them, the generic reason when there is none
MatchedGroupReason(p) ==
    IF GroupsMatched(p) = {} THEN "matches skip pattern"
    ELSE SkipGroups[CHOOSE g \in GroupsMatched(p) : \A h \in GroupsMatched(p) : g <= h].reason

\* C19: the reason logged for a skipped path is that of the first category,
\* in the order lock file, minified, build artifact, cache file, generated
\* code, image, binary/archive, whose skip patterns the path matches, and the
\* generic reason only when it matches none of them.
C19_ReasonIsMatchedGroup ==
    FilterReturned =>
        \A j \in 1..Len(skipped_files) :
            should_skip_file(skipped_files[j][1]) =>
                skipped_files[j][2] = MatchedGroupReason(skipped_files[j][1])

\* the number of lines in the body of chunk k of the last list returned
BodySize(k) == ret_chunks[k].end_line - ret_chunks[k].start_line + 1

\* C20: in the list _chunk_diff returns under CHUNK_SIZE_LINES = s >= 1,
\* the body of every chunk has at least 1 and at most s lines, and the body
\* of every chunk but the last has at least max(s - 49, 1) lines.
C20_BodySizeBounds ==
    (ViaChunkDiff /\ CHUNK_SIZE_LINES >= 1) =>
        \A k \in 1..Len(ret_chunks) :
            /\ 1 <= BodySize(k)
            /\ BodySize(k) <= CHUNK_SIZE_LINES
            /\ k < Len(ret_chunks) => BodySize(k) >= Max(CHUNK_SIZE_LINES - 49, 1)

\* C20 witness: under the default chunk size the break line search moved
\* the end of a chunk back by the full 49 lines
C20_Witness ==
    /\ ViaChunkDiff
    /\ CHUNK_SIZE_LINES = DEFAULT_CHUNK_SIZE_LINES
    /\ Len(ret_chunks) >= 2
    /\ BodySize(1) = CHUNK_SIZE_LINES - 49

\* the first end_line - start_line + 1 lines of the content of chunk k of the
\* last list returned
BodyLinesOf(k) ==
    LET content_lines == Split(ret_chunks[k].content)
    IN  SubSeq(content_lines, 1, Min(BodySize(k), Len(content_lines)))

\* those lines of the chunks k, k + 1, ... in chunk order
RECURSIVE BodyLinesFrom(_)
BodyLinesFrom(k) ==
    IF k > Len(ret_chunks) THEN <<>> ELSE BodyLinesOf(k) \o BodyLinesFrom(k + 1)

\* C21: chunking loses and duplicates no text: in the list _chunk_diff
\* returns under CHUNK_SIZE_LINES >= 1, the first end_line - start_line + 1
\* lines of every content, joined in chunk order with line breaks, are the
\* diff text.
C21_BodiesRebuildDiff ==
    (ViaChunkDiff /\ CHUNK_SIZE_LINES >= 1) => Join(BodyLinesFrom(1)) = RetDiff

\* C21 witness: a diff with a final line break came back as three chunks or
\* more, one of them carrying context, and the bodies rebuild it
C21_Witness ==
    /\ ViaChunkDiff
    /\ CHUNK_SIZE_LINES >= 1
    /\ Len(ret_chunks) >= 3
    /\ Len(RetDiff) >= 1
    /\ RetDiff[Len(RetDiff)] = NL
    /\ \E k \in 1..Len(ret_chunks) : Len(Split(ret_chunks[k].content)) > BodySize(k)
    /\ Join(BodyLinesFrom(1)) = RetDiff

\* the input files one call logs, in input order: those whose path matches
\* a skip pattern or a note-only pattern
LoggedInputs ==
    SelectSeq(file_changes,
              LAMBDA f : should_skip_file(FilePath(f)) \/ should_note_only(FilePath(f)))

\* C22: the exclusion log of one FileFilter only grows: after any number of
\* filter_files calls on the same input, get_skipped_files holds, call after
\* call and in input order inside a call, one entry for every skipped or
\* note-only file; the entries of an earlier call stay where they were, so
\* two calls list each excluded file twice.
C22_ExclusionLogOnlyGrows ==
    FilterReturned =>
        LET m == Len(LoggedInputs)
        IN  /\ Len(skipped_files) = calls * m
            /\ \A c \in 0..(calls - 1) : \A i \in 1..m :
                 LET entry == skipped_files[c * m + i]
                     path == FilePath(LoggedInputs[i])
                 IN  /\ entry[1] = path
                     /\ IF should_skip_file(path)
                        THEN entry[2] \in SkipReasons \ {NOTE_ONLY_REASON}
                        ELSE entry[2] = NOTE_ONLY_REASON

\* C22 witness: two calls on an input with a skipped and a note-only file
\* left four entries, the last two repeating the first two
C22_Witness ==
    /\ FilterReturned
    /\ calls = 2
    /\ Len(skipped_files) = 4
    /\ skipped_files[1] # skipped_files[2]
    /\ skipped_files[3] = skipped_files[1]
    /\ skipped_files[4] = skipped_files[2]
    /\ \E j \in 1..2 : skipped_files[j][2] = NOTE_ONLY_REASON
    /\ \E j \in 1..2 : skipped_files[j][2] # NOTE_ONLY_REASON

\* the positions of the exclusion-log entries that carry a skip reason
SkipReasonEntries == {j \in 1..Len(skipped_files) : skipped_files[j][2] # NOTE_ONLY_REASON}

\* the input files the log holds no skip-reason entry for, in input order
InputsNotSkipLogged ==
    SelectSeq(file_changes,
              LAMBDA f : ~\E j \in SkipReasonEntries : skipped_files[j][1] = FilePath(f))

\* C23: one filter_files call accounts for every input file once: the
\* FilteredFiles returned and the skip-reason entries the call added are
\* together as many as the input files, no file has both a FilteredFile and
\* a skip-reason entry, and the FilteredFiles are in input order.
C23_EveryInputAccountedOnce ==
    FilterReturned =>
        /\ calls * Len(filtered_files) + Cardinality(SkipReasonEntries)
             = calls * Len(file_changes)
        /\ \A i \in 1..Len(filtered_files) :
             ~\E j \in SkipReasonEntries :
                 skipped_files[j][1] = FilePath(filtered_files[i].file_change)
        /\ Len(filtered_files) = Len(InputsNotSkipLogged)
        /\ \A i \in 1..Len(filtered_files) :
             i <= Len(InputsNotSkipLogged) =>
                filtered_files[i].file_change = InputsNotSkipLogged[i]

\* C23 witness: one call on five files returned four FilteredFiles of
\* different files and added one skip-reason entry
C23_Witness ==
    /\ FilterReturned
    /\ calls = 1
    /\ Len(file_changes) = 5
    /\ Len(filtered_files) = 4
    /\ Cardinality(SkipReasonEntries) = 1
    /\ \A i, k \in 1..Len(filtered_files) :
         i # k => filtered_files[i].file_change # filtered_files[k].file_change

\* C24: every chunk process_file returns for a diff text that is not empty
\* has a well-formed line range, 1 <= start_line <= end_line, whether
\* should_chunk is false or _chunk_diff ran (CHUNK_SIZE_LINES >= 1), and
\* also when the text has no line break or no final line break.
C24_LineRangeWellFormed ==
    (ret_idx > 0 /\ RetDiff # <<>> /\ CHUNK_SIZE_LINES >= 1) =>
        \A k \in 1..Len(ret_chunks) :
            /\ 1 <= ret_chunks[k].start_line
            /\ ret_chunks[k].start_line <= ret_chunks[k].end_line

\* the last process_file call was on a file chunked for its size alone,
\* with no more lines than one chunk takes
ChunkedForSizeAlone ==
    /\ ViaChunkDiff
    /\ SizeExceeds(filtered_files[ret_idx].size_kb)
    /\ ~(filtered_files[ret_idx].line_count > CHUNK_SIZE_LINES)
    /\ Len(Split(RetDiff)) <= CHUNK_SIZE_LINES

\* C25: a file with should_chunk true only because of its size, whose diff
\* has at most CHUNK_SIZE_LINES newline-delimited elements, comes back from
\* process_file as one chunk, 1 of 1, whose content is the whole diff text.
C25_SizeAloneNeverSplits ==
    ChunkedForSizeAlone =>
        /\ Len(ret_chunks) = 1
        /\ ret_chunks[1].chunk_number = 1
        /\ ret_chunks[1].total_chunks = 1
        /\ ret_chunks[1].content = RetDiff
        /\ ret_chunks[1].start_line = 1
        /\ ret_chunks[1].end_line = Len(Split(RetDiff))

\* C25 witness: such a file of several lines, one of them a break line
\* before the last, came back as one chunk holding the whole text
C25_Witness ==
    /\ ChunkedForSizeAlone
    /\ Len(Split(RetDiff)) >= 3
    /\ \E i \in 1..(Len(Split(RetDiff)) - 1) : IsBreakLine(Split(RetDiff)[i])
    /\ Len(ret_chunks) = 1
    /\ ret_chunks[1].content = RetDiff
====
